---- MODULE Spec2Model ----
(***************************************************************************)
(* compose-dump, dump/cli/main.py: the backup command.                     *)
(*                                                                         *)
(*   main -> backup(args):                                                 *)
(*       options = process_backup_options(vars(args).copy())               *)
(*       config, config_details, environment = get_compose_context(options)*)
(*       create_dump(SimpleNamespace(options, manifest, config, ...))      *)
(*                                                                         *)
(* Python values are modelled as follows.                                  *)
(*   - a str is a sequence of tokens; a token is one character ("." and    *)
(*     "/") or a run of characters that holds neither ("a", "gz", ...);    *)
(*   - None is the empty wrapper <<>> and a value v that may be None is    *)
(*     the wrapper <<v>>;                                                  *)
(*   - a dict with str keys is a function on a set of strings;             *)
(*   - a tuple or list is a sequence;                                      *)
(*   - a pathlib.Path is [root, parts] as pathlib parses it.               *)
(***************************************************************************)
EXTENDS Integers, Sequences, FiniteSets, TLC

VARIABLES
    args,           \* vars(args): the namespace argparse returned
    environ,        \* os.environ['COMPOSE_PROJECT_NAME'], None when unset
    existing_dirs,  \* the paths that are directories on the file system
    compose,        \* what the compose library finds in the project
    pc,             \* position in main/backup
    called,         \* the functions backup has called so far, in order
    options,        \* the options dict
    context,        \* backup's locals config, config_details, environment
    checked,        \* the arguments directory_exists was called with
    ctx,            \* what create_dump received, one entry per call
    exit_status     \* the process's exit status, None while it runs

vars == <<args, environ, existing_dirs, compose, pc, called, options,
          context, checked, ctx, exit_status>>

----------------------------------------------------------------------------
(* Bounds of the model. *)

\* the longest str, in tokens, given as --target or --project-dir
MaxLen == 3
\* the most service names given on the command line
MaxServices == 2

----------------------------------------------------------------------------
(* Python values. *)

None == <<>>
Some(v) == <<v>>
Value(o) == o[1]

\* str.__bool__ / None.__bool__ for a value that is None or a str
Truthy(o) == o # None /\ Value(o) # <<>>

\* dict operations
SetItem(d, k, v) == [x \in DOMAIN d \cup {k} |-> IF x = k THEN v ELSE d[x]]
DelItem(d, k) == [x \in DOMAIN d \ {k} |-> d[x]]

Last(s) == s[Len(s)]

\* set(seq)
ToSet(s) == {s[i] : i \in 1..Len(s)}

----------------------------------------------------------------------------
(* Module constants. *)

COMPRESSIONS == << <<"bz2">>, <<"gz">>, <<"tar">>, <<"xz">> >>

COMPRESSION_EXTENSIONS == [i \in 1..Len(COMPRESSIONS) |-> <<".">> \o COMPRESSIONS[i]]

SCOPES == <<"config", "mounted", "volumes">>

----------------------------------------------------------------------------
(* pathlib, as main.py uses it: Path(str), Path.name, Path.suffix. *)

\* str.split('/')
RECURSIVE SplitSep(_)
SplitSep(s) ==
    IF s = <<>> THEN << <<>> >>
    ELSE LET rest == SplitSep(Tail(s))
         IN  IF Head(s) = "/" THEN << <<>> >> \o rest
             ELSE << <<Head(s)>> \o rest[1] >> \o Tail(rest)

\* Path(s): the root, and the components that are neither empty nor '.'
PurePath(s) ==
    [root  |-> s # <<>> /\ Head(s) = "/",
     parts |-> SelectSeq(SplitSep(s), LAMBDA c : c # <<>> /\ c # <<".">>)]

\* Path.name: the final component, '' when there is none
PathName(p) == IF p.parts = <<>> THEN <<>> ELSE Last(p.parts)

\* str.rfind('.') + 1: the place of the last dot, 0 when there is none
RFindDot(name) ==
    LET dots == {i \in 1..Len(name) : name[i] = "."}
    IN  IF dots = {} THEN 0 ELSE CHOOSE i \in dots : \A j \in dots : j <= i

\* Path.suffix: from the last dot of the name on, unless the name starts or
\* ends with that dot
PathSuffix(p) ==
    LET name == PathName(p)
        i    == RFindDot(name)
    IN  IF 1 < i /\ i < Len(name) THEN SubSeq(name, i, Len(name)) ELSE <<>>

----------------------------------------------------------------------------
(* dump.cli.utils.directory_exists(path): returns when path is a          *)
(* directory, ends the process otherwise; None has no is_dir().            *)

directory_exists(path, dirs) ==
    IF path = None THEN "AttributeError"
    ELSE IF Value(path) \in dirs THEN "return"
    ELSE "SystemExit"

----------------------------------------------------------------------------
(* process_backup_options *)

\* options['project_name'] or os.getenv('COMPOSE_PROJECT_NAME')
\*     or options['project_dir'].name
ResolveProjectName_EnvFirst(o, env) ==
    IF Truthy(env) THEN Value(env)
    ELSE IF Truthy(o.project_name) THEN Value(o.project_name)
    ELSE PathName(o.project_dir)

ResolveProjectName(o, env) ==
    IF Truthy(o.project_name) THEN Value(o.project_name)
    ELSE IF Truthy(env) THEN Value(env)
    ELSE PathName(o.project_dir)

\* the loop with (scope,) + options['scopes']
RECURSIVE ScopeLoop_Prepend(_, _)
ScopeLoop_Prepend(o, i) ==
    IF i > Len(SCOPES) THEN o
    ELSE LET scope == SCOPES[i]
             o1    == IF o[scope]
                      THEN SetItem(o, "scopes", <<scope>> \o o.scopes)
                      ELSE o
         IN  ScopeLoop_Prepend(DelItem(o1, scope), i + 1)

\* for scope in SCOPES: if options[scope]: options['scopes'] += (scope,)
\*                      del options[scope]
RECURSIVE ScopeLoop(_, _)
ScopeLoop(o, i) ==
    IF i > Len(SCOPES) THEN o
    ELSE LET scope == SCOPES[i]
             o1    == IF o[scope]
                      THEN SetItem(o, "scopes", Append(o.scopes, scope))
                      ELSE o
         IN  ScopeLoop(DelItem(o1, scope), i + 1)

\* without the final `if not options['scopes']`
CollectScopes_NoDefault(o) == ScopeLoop(SetItem(o, "scopes", <<>>), 1)

\* options['scopes'] = (); the loop; if not options['scopes']: ... = SCOPES
CollectScopes(o) ==
    LET o1 == ScopeLoop(SetItem(o, "scopes", <<>>), 1)
    IN  IF o1.scopes = <<>> THEN SetItem(o1, "scopes", SCOPES) ELSE o1

\* s in COMPRESSION_EXTENSIONS
IsCompressionExtension(s) == s \in ToSet(COMPRESSION_EXTENSIONS)

\* with `else:` for `elif options['compression'] is None:`
ResolveCompression_AlwaysTar(o) ==
    IF o.target # None
    THEN LET t  == PurePath(Value(o.target))
             o1 == SetItem(o, "target", Some(t))
         IN  IF o1.compression = None /\ IsCompressionExtension(PathSuffix(t))
             THEN SetItem(o1, "compression", Some(Tail(PathSuffix(t))))
             ELSE o1
    ELSE SetItem(o, "compression", Some(<<"tar">>))

\* with .suffix for .suffix[1:]
ResolveCompression_KeepDot(o) ==
    IF o.target # None
    THEN LET t  == PurePath(Value(o.target))
             o1 == SetItem(o, "target", Some(t))
         IN  IF o1.compression = None /\ IsCompressionExtension(PathSuffix(t))
             THEN SetItem(o1, "compression", Some(PathSuffix(t)))
             ELSE o1
    ELSE IF o.compression = None
    THEN SetItem(o, "compression", Some(<<"tar">>))
    ELSE o

\* without the elif branch that defaults to 'tar'
ResolveCompression_NoDefault(o) ==
    IF o.target # None
    THEN LET t  == PurePath(Value(o.target))
             o1 == SetItem(o, "target", Some(t))
         IN  IF o1.compression = None /\ IsCompressionExtension(PathSuffix(t))
             THEN SetItem(o1, "compression", Some(Tail(PathSuffix(t))))
             ELSE o1
    ELSE o

\* the target as a Path, and the compression from its suffix or the default
ResolveCompression(o) ==
    IF o.target # None
    THEN LET t  == PurePath(Value(o.target))
             o1 == SetItem(o, "target", Some(t))
         IN  IF o1.compression = None /\ IsCompressionExtension(PathSuffix(t))
             THEN SetItem(o1, "compression", Some(Tail(PathSuffix(t))))
             ELSE o1
    ELSE IF o.compression = None
    THEN SetItem(o, "compression", Some(<<"tar">>))
    ELSE o

\* if options['compression']: 'archive'
\* else: directory_exists(options['target']); 'folder'
ResolveTargetType(o, dirs) ==
    IF Truthy(o.compression)
    THEN [outcome |-> "return", checked |-> <<>>,
          options |-> SetItem(o, "target_type", "archive")]
    ELSE LET r == directory_exists(o.target, dirs)
         IN  [outcome |-> r, checked |-> <<o.target>>,
              options |-> IF r = "return"
                          THEN SetItem(o, "target_type", "folder") ELSE o]

\* process_backup_options(options): how it ends ("return", or the exception
\* it raises), the dict as it leaves it, and its calls of directory_exists
process_backup_options(a, env, dirs) ==
    LET o1 == DelItem(SetItem(DelItem(a, "action"), "compose_files", a.file), "file")
        o2 == SetItem(o1, "project_dir", PurePath(o1.project_dir))
        r2 == directory_exists(Some(o2.project_dir), dirs)
        o3 == SetItem(o2, "project_name", ResolveProjectName(o2, env))
        o4 == ResolveCompression(CollectScopes(o3))
        r4 == ResolveTargetType(o4, dirs)
    IN  IF r2 # "return"
        THEN [outcome |-> r2, options |-> o2, checked |-> <<Some(o2.project_dir)>>]
        ELSE [outcome |-> r4.outcome, options |-> r4.options,
              checked |-> <<Some(o2.project_dir)>> \o r4.checked]

----------------------------------------------------------------------------
(* get_compose_context *)

\* tuple(x['name'] for x in config.services)
ServiceNames(config) == [i \in 1..Len(config.services) |-> config.services[i].name]

\* the difference taken the other way round
UnknownServices_Reversed(o, config) == ToSet(ServiceNames(config)) \ ToSet(o.services)

\* set(options['services']) - set(x['name'] for x in config.services)
UnknownServices(o, config) == ToSet(o.services) \ ToSet(ServiceNames(config))

\* without the except clause
LoadConfig_Propagates(comp) ==
    IF comp.fault = "load" THEN "ConfigurationError" ELSE "return"

\* try: config = compose_config.load(config_details)
\* except ConfigurationError: raise SystemExit(1)
LoadConfig(comp) == IF comp.fault = "load" THEN "SystemExit" ELSE "return"

\* without the final if
FillServices_Never(o, config) == o

\* if not options['services']: options['services'] = tuple(names)
FillServices(o, config) ==
    IF o.services = <<>> THEN SetItem(o, "services", ServiceNames(config)) ELSE o

\* get_compose_context(options): how it ends, the dict as it leaves it, and
\* the tuple it returns.  compose.fault says which call of the compose
\* library raises ConfigurationError: find (outside the try), load (inside
\* it), or none.
get_compose_context(o, comp) ==
    LET base_dir       == o.project_dir
        environment    == [from_env_file |-> base_dir]
        config_details == [working_dir |-> base_dir, filenames |-> o.compose_files,
                           environment |-> environment]
        config         == [services |-> comp.services]
    IN  IF comp.fault = "find"
        THEN [outcome |-> "ConfigurationError", options |-> o, value |-> None]
        ELSE IF LoadConfig(comp) # "return"
        THEN [outcome |-> LoadConfig(comp), options |-> o, value |-> None]
        ELSE IF UnknownServices(o, config) # {}
        THEN [outcome |-> "SystemExit", options |-> o, value |-> None]
        ELSE [outcome |-> "return",
              options |-> FillServices(o, config),
              value   |-> Some(<<config, config_details, environment>>)]

----------------------------------------------------------------------------
(* backup *)

\* with config=config_details
Namespace_Swapped(o, config, config_details, environment) ==
    [options |-> o, manifest |-> <<>>, config |-> config_details,
     config_details |-> config_details, environment |-> environment]

\* SimpleNamespace(options=options, manifest=OrderedDict(), config=config,
\*                 config_details=config_details, environment=environment)
Namespace(o, config, config_details, environment) ==
    [options |-> o, manifest |-> <<>>, config |-> config,
     config_details |-> config_details, environment |-> environment]

\* where the process is once a call ended with `outcome`
After(outcome, next) ==
    IF outcome = "return" THEN next
    ELSE IF outcome = "SystemExit" THEN "exited"
    ELSE "raised"

\* SystemExit(1), and the interpreter's status for an uncaught exception
Status(outcome) == IF outcome = "return" THEN None ELSE Some(1)

\* options = process_backup_options(vars(args).copy())
CallProcessBackupOptions ==
    /\ pc = "main"
    /\ LET r == process_backup_options(args, environ, existing_dirs)
       IN  /\ options' = r.options
           /\ checked' = checked \o r.checked
           /\ pc' = After(r.outcome, "normalized")
           /\ exit_status' = Status(r.outcome)
    /\ called' = Append(called, "process_backup_options")
    /\ UNCHANGED <<args, environ, existing_dirs, compose, context, ctx>>

\* config, config_details, environment = get_compose_context(options)
CallGetComposeContext ==
    /\ pc = "normalized"
    /\ LET r == get_compose_context(options, compose)
       IN  /\ options' = r.options
           /\ context' = r.value
           /\ pc' = After(r.outcome, "loaded")
           /\ exit_status' = Status(r.outcome)
    /\ called' = Append(called, "get_compose_context")
    /\ UNCHANGED <<args, environ, existing_dirs, compose, checked, ctx>>

\* create_dump(ctx); backup and main return
CallCreateDump ==
    /\ pc = "loaded"
    /\ LET c == Value(context)
       IN  ctx' = Append(ctx, Namespace(options, c[1], c[2], c[3]))
    /\ pc' = "done"
    /\ exit_status' = Some(0)
    /\ called' = Append(called, "create_dump")
    /\ UNCHANGED <<args, environ, existing_dirs, compose, options, context, checked>>

----------------------------------------------------------------------------
(* The command lines and the environments the model runs. *)

Strings(tokens, n) == UNION {[1..k -> tokens] : k \in 0..n}

\* tokens of a --target: text, the dot, the separator, the compressions
TargetTokens == {"a", ".", "/"} \cup {c[1] : c \in ToSet(COMPRESSIONS)}

\* tokens of a --project-dir
DirTokens == {"a", "b", ".", "/"}

\* service names of the command line; "x" is in no configuration
CliServices == {"web", "db", "x"}

\* the lists of services a configuration holds: names are unique
ConfigServices ==
    {[i \in 1..Len(s) |-> [name |-> s[i]]] :
        s \in {t \in Strings({"web", "db"}, 2) :
                  \A i, j \in 1..Len(t) : t[i] = t[j] => i = j}}

\* parse_cli_args' defaults (add_backup_parser), in the directory /a
DefaultArgs ==
    [action |-> "backup", config |-> FALSE, compression |-> None, file |-> None,
     mounted |-> FALSE, no_pause |-> FALSE, project_dir |-> <<"/", "a">>,
     project_name |-> None, resolve_symlinks |-> FALSE, target |-> None,
     verbose |-> FALSE, volumes |-> FALSE, services |-> <<>>]

DefaultCompose == [fault |-> "none", services |-> << [name |-> "web"] >>]

\* the include flags, the services and the compose files vary
FlowInputs ==
    {[args |-> [DefaultArgs EXCEPT !.config = c, !.mounted = m, !.volumes = v,
                                   !.services = s, !.file = f],
      environ |-> None,
      compose |-> [fault |-> ft, services |-> cs]] :
        c \in BOOLEAN, m \in BOOLEAN, v \in BOOLEAN,
        s \in Strings(CliServices, MaxServices),
        f \in {None, Some(<< <<"a">> >>)},
        ft \in {"none", "find", "load"}, cs \in ConfigServices}

\* --target and --compression vary
TargetInputs ==
    {[args |-> [DefaultArgs EXCEPT !.target = t, !.compression = x],
      environ |-> None, compose |-> DefaultCompose] :
        t \in {None} \cup {Some(s) : s \in Strings(TargetTokens, MaxLen)},
        x \in {None} \cup {Some(c) : c \in ToSet(COMPRESSIONS)}}

\* --project-name, COMPOSE_PROJECT_NAME and --project-dir vary
NameInputs ==
    {[args |-> [DefaultArgs EXCEPT !.project_name = n, !.project_dir = d],
      environ |-> e, compose |-> DefaultCompose] :
        n \in {None, Some(<<>>), Some(<<"p">>)},
        e \in {None, Some(<<>>), Some(<<"e">>)},
        d \in Strings(DirTokens, MaxLen)}

Inputs == FlowInputs \cup TargetInputs \cup NameInputs

\* the paths the run may ask the file system about
AskedPaths(a) ==
    {PurePath(a.project_dir)} \cup
    (IF a.target = None THEN {} ELSE {PurePath(Value(a.target))})

Init ==
    /\ \E i \in Inputs :
          /\ args = i.args
          /\ environ = i.environ
          /\ compose = i.compose
          /\ existing_dirs \in SUBSET AskedPaths(i.args)
    /\ pc = "main"
    /\ called = <<>>
    /\ options = None
    /\ context = None
    /\ checked = <<>>
    /\ ctx = <<>>
    /\ exit_status = None

Next ==
    \/ CallProcessBackupOptions
    \/ CallGetComposeContext
    \/ CallCreateDump

Spec == Init /\ [][Next]_vars

----------------------------------------------------------------------------
(* What the properties below speak of. *)

\* process_backup_options has returned
Normalized == pc \in {"normalized", "loaded", "done"} \/ Len(called) >= 2

\* get_compose_context has been called and has ended
ContextEnded == Len(called) >= 2

\* a service named on the command line is not in the configuration
UnknownGiven ==
    \E i \in 1..Len(args.services) :
        \A j \in 1..Len(compose.services) :
            compose.services[j].name # args.services[i]

AllScopes == <<"config", "mounted", "volumes">>

NoFlag == ~args.config /\ ~args.mounted /\ ~args.volumes

Extensions == {<<".", "bz2">>, <<".", "gz">>, <<".", "tar">>, <<".", "xz">>}

Archives == {Some(<<"bz2">>), Some(<<"gz">>), Some(<<"tar">>), Some(<<"xz">>)}

\* the suffix of the --target given
GivenSuffix == PathSuffix(PurePath(Value(args.target)))

\* s is t with some elements left out; the elements of t are distinct
IsSubsequence(s, t) ==
    /\ \A i \in 1..Len(s) : \E k \in 1..Len(t) : t[k] = s[i]
    /\ \A i, j \in 1..Len(s) :
          i < j => \E k, l \in 1..Len(t) : k < l /\ t[k] = s[i] /\ t[l] = s[j]

----------------------------------------------------------------------------
(* The properties. *)

\* C1: with none of --config, --mounted, --volumes set, process_backup_options
\* yields scopes = ('config', 'mounted', 'volumes').
C1_NoFlagMeansAllScopes ==
    (Normalized /\ NoFlag) => options.scopes = AllScopes

C1_Witness ==
    pc = "normalized" /\ NoFlag /\ options.scopes = AllScopes

\* C2: with at least one include flag set, scopes holds exactly the flagged
\* scopes, once each, in the order config, mounted, volumes; in every case
\* scopes is a non-empty subsequence of ('config', 'mounted', 'volumes').
C2_ScopesAreTheFlaggedOnes ==
    Normalized =>
        /\ ~NoFlag => options.scopes = SelectSeq(AllScopes, LAMBDA s : args[s])
        /\ options.scopes # <<>>
        /\ IsSubsequence(options.scopes, AllScopes)

C2_Witness ==
    /\ pc = "normalized"
    /\ args.config /\ ~args.mounted /\ args.volumes
    /\ options.scopes = <<"config", "volumes">>

\* C3: without --target, target stays None, target_type is 'archive', and
\* compression is 'tar' when no --compression was given and the given
\* compression otherwise.
C3_NoTargetMeansArchive ==
    (Normalized /\ args.target = None) =>
        /\ options.target = None
        /\ options.target_type = "archive"
        /\ options.compression =
              IF args.compression = None THEN Some(<<"tar">>) ELSE args.compression

C3_Witness ==
    /\ pc = "normalized"
    /\ args.target = None /\ args.compression = None
    /\ options.compression = Some(<<"tar">>)
    /\ options.target_type = "archive"

\* C4: with --target and without --compression, a target whose suffix is
\* .bz2, .gz, .tar or .xz sets compression to the suffix without its dot; a
\* --compression given is kept whatever the target's suffix is.
C4_CompressionFromSuffix ==
    Normalized =>
        /\ (args.target # None /\ args.compression = None /\ GivenSuffix \in Extensions)
              => options.compression = Some(Tail(GivenSuffix))
        /\ args.compression # None => options.compression = args.compression

C4_Witness ==
    /\ pc = "normalized"
    /\ args.target = Some(<<"a", ".", "gz">>) /\ args.compression = None
    /\ options.compression = Some(<<"gz">>)

\* C5: when the configuration loads and a service named on the command line
\* is not in it, get_compose_context ends the process with status 1, leaves
\* options['services'] as given, and create_dump is not called.
C5_UnknownServiceExits ==
    (compose.fault = "none" /\ UnknownGiven) =>
        /\ ctx = <<>>
        /\ \A i \in 1..Len(called) : called[i] # "create_dump"
        /\ ContextEnded =>
              /\ pc = "exited"
              /\ exit_status = Some(1)
              /\ options.services = args.services

C5_Witness ==
    /\ pc = "exited" /\ Len(called) = 2
    /\ compose.fault = "none"
    /\ args.services = <<"web", "x">>
    /\ compose.services = << [name |-> "web"] >>

\* C6: when compose_config.load raises ConfigurationError, get_compose_context
\* ends the process with status 1 (SystemExit, not the ConfigurationError),
\* and create_dump is not called.
C6_LoadErrorExits ==
    compose.fault = "load" =>
        /\ ctx = <<>>
        /\ \A i \in 1..Len(called) : called[i] # "create_dump"
        /\ ContextEnded => (pc = "exited" /\ exit_status = Some(1))

C6_Witness ==
    pc = "exited" /\ Len(called) = 2 /\ compose.fault = "load"

\* C7: backup calls process_backup_options, then get_compose_context, then
\* create_dump; create_dump is called at most once, only when both others
\* returned, and with the normalized options, the loaded config,
\* config_details and environment, and an empty manifest.
C7_NormalizeLoadDump ==
    /\ \E n \in 0..3 :
          called = SubSeq(<<"process_backup_options", "get_compose_context",
                            "create_dump">>, 1, n)
    /\ Len(ctx) <= 1
    /\ (ctx # <<>> \/ pc = "done") =>
          /\ Len(called) = 3 /\ Len(ctx) = 1 /\ pc = "done"
          /\ context # None
          /\ ctx[1].options = options
          /\ {"scopes", "target_type", "compression", "project_name", "services"}
                \subseteq DOMAIN options
          /\ ctx[1].manifest = <<>>
          /\ ctx[1].config = Value(context)[1]
          /\ ctx[1].config.services = compose.services
          /\ ctx[1].config_details = Value(context)[2]
          /\ ctx[1].environment = Value(context)[3]
    /\ pc \in {"exited", "raised"} => ctx = <<>>

C7_Witness ==
    pc = "done" /\ Len(ctx) = 1 /\ called[3] = "create_dump"

\* C8: when get_compose_context returns, options['services'] holds only
\* services of the configuration: the ones given on the command line when
\* any was given, all services of the configuration otherwise.
C8_ServicesRestricted ==
    pc \in {"loaded", "done"} =>
        /\ \A i \in 1..Len(options.services) :
              \E j \in 1..Len(compose.services) :
                  compose.services[j].name = options.services[i]
        /\ args.services # <<>> => options.services = args.services
        /\ args.services = <<>> =>
              /\ Len(options.services) = Len(compose.services)
              /\ \A j \in 1..Len(compose.services) :
                    options.services[j] = compose.services[j].name

C8_Witness ==
    /\ pc = "loaded"
    /\ args.services = <<"db">>
    /\ Len(compose.services) = 2
    /\ options.services = <<"db">>

\* C9: the project name is --project-name if given and not empty, else
\* COMPOSE_PROJECT_NAME if set and not empty, else the final component of
\* the project directory.
C9_ProjectNamePrecedence ==
    Normalized =>
        options.project_name =
            IF args.project_name # None /\ Value(args.project_name) # <<>>
            THEN Value(args.project_name)
            ELSE IF environ # None /\ Value(environ) # <<>>
            THEN Value(environ)
            ELSE PathName(PurePath(args.project_dir))

C9_Witness ==
    /\ pc = "normalized"
    /\ args.project_name = Some(<<"p">>) /\ environ = Some(<<"e">>)
    /\ options.project_name = <<"p">>

\* C10: after process_backup_options, target_type is 'archive' exactly when
\* compression is bz2, gz, tar or xz and 'folder' exactly when it is None;
\* 'folder' needs a target whose suffix is no compression extension and no
\* --compression; directory_exists is never called with None.
C10_TargetTypeFollowsCompression ==
    /\ Normalized =>
          /\ options.target_type \in {"archive", "folder"}
          /\ options.target_type = "archive" <=> options.compression \in Archives
          /\ options.target_type = "folder" <=> options.compression = None
          /\ options.target_type = "folder" =>
                /\ args.target # None
                /\ GivenSuffix \notin Extensions
                /\ args.compression = None
    /\ \A i \in 1..Len(checked) : checked[i] # None

C10_Witness ==
    /\ pc = "normalized"
    /\ options.target_type = "folder"
    /\ Len(checked) = 2 /\ checked[2] = options.target

====
